---- MODULE Spec2Model ----
(***************************************************************************)
(* Biology Learning API (src/main.py, src/schemas.py).                     *)
(*                                                                         *)
(* The state is the document store (collections "chapter" and              *)
(* "quizquestion"), the process-wide handle db, and the HTTP requests in   *)
(* flight.  A handler is split at its store round trips only: FastAPI runs *)
(* the synchronous handlers on a thread pool, so the round trips of        *)
(* different requests interleave.  Spec allows that interleaving, SeqSpec  *)
(* runs the same handlers one request at a time.                           *)
(*                                                                         *)
(* database.py (db, create_document) is not among the sources; the store   *)
(* adapter is modelled from section 4.1 of the specification.              *)
(***************************************************************************)
EXTENDS Integers, Sequences, FiniteSets, TLC

VARIABLES db, chapter, quizquestion, owner, req

vars == <<db, chapter, quizquestion, owner, req>>

\* ------------------------------------------------------------------ bounds

\* Number of HTTP requests a behaviour issues.
MaxRequests == 2

\* Largest explicit ?limit= value tried (the default limit is tried too).
MaxLimit == 3

\* Collections of the database that belong to other applications.
ManyOthers == 11

Requests == 1..MaxRequests

\* --------------------------------------------------------------- constants

SeedSlug == "cell-structure"

DefaultLimit == 20

MaxCollectionsShown == 10

MaxErrorChars == 50

Slugs == {SeedSlug, "x"}

\* ---------------------------------------------------------------- helpers

Min(a, b) == IF a < b THEN a ELSE b

Abs(n) == IF n < 0 THEN -n ELSE n

Take(s, n) == SubSeq(s, 1, Min(n, Len(s)))

RECURSIVE SelectWhere(_, _, _)
\* The documents of s whose field f equals v, in the store's order.
SelectWhere(s, f, v) ==
    IF s = <<>> THEN <<>>
    ELSE IF Head(s)[f] = v
         THEN <<Head(s)>> \o SelectWhere(Tail(s), f, v)
         ELSE SelectWhere(Tail(s), f, v)

Digit(n) == <<"0", "1", "2", "3", "4", "5", "6", "7", "8", "9">>[n + 1]

RECURSIVE Str(_)
\* str() of a store identifier: its digits, never empty.
Str(n) == IF n < 10 THEN <<Digit(n)>> ELSE Str(n \div 10) \o <<Digit(n % 10)>>

\* The absent document (Python's None).
None == [x \in {} |-> x]

IsNone(doc) == DOMAIN doc = {}

\* ------------------------------------------------- store adapter (spec 4.1)

\* What database.db can be after start-up: None (not initialised), or a
\* handle of the driver the build is installed with.
NoHandle == "None"

HandleTruthy == "handle, bool(db) is True"

HandleBoolRaises == "handle, bool(db) raises NotImplementedError"

Handles == {NoHandle, HandleTruthy, HandleBoolRaises}

\* find_one(filter): the first document whose field f equals v, or None.
find_one(coll, f, v) ==
    LET hits == SelectWhere(coll, f, v) IN IF hits = <<>> THEN None ELSE Head(hits)

\* Cursor.limit(n) as the driver applies it to a result list: 0 means no
\* limit, and a negative n limits to |n| documents (one batch).
limit_cursor(docs, n) == IF n = 0 THEN docs ELSE Take(docs, Abs(n))

\* create_document: the document as stored, with the identifier the store
\* assigns (the next unused one).
stored(doc, id) == ("_id" :> id) @@ doc

\* ------------------------------------------------------------ src/main.py

\* serialize: a falsy document is returned as it is; otherwise _id is
\* popped and its str() is put under "id", the other fields pass through.
serialize(doc) ==
    IF IsNone(doc) THEN doc
    ELSE IF "_id" \in DOMAIN doc
         THEN [f \in (DOMAIN doc \ {"_id"}) \cup {"id"} |->
                  IF f = "id" THEN Str(doc["_id"]) ELSE doc[f]]
         ELSE doc

RECURSIVE serialize_all(_)
serialize_all(docs) ==
    IF docs = <<>> THEN <<>>
    ELSE <<serialize(Head(docs))>> \o serialize_all(Tail(docs))

\* The fixed chapter seed_data builds (Chapter(...).model_dump()).
seed_chapter ==
    [slug |-> SeedSlug,
     title |-> "Struktur dan Fungsi Sel",
     summary |-> "Ikhtisar mandiri tentang struktur dasar sel prokariot dan eukariot, membran, organel, dan aliran energi.",
     objectives |-> <<"Membedakan sel prokariot dan eukariot",
                      "Menjelaskan fungsi organel utama",
                      "Mengaitkan struktur membran dengan transport">>,
     sections |-> <<[heading |-> "Gambaran Umum Sel",
                     body |-> "Sel adalah unit dasar kehidupan."],
                    [heading |-> "Organel Utama",
                     body |-> "Nukleus, mitokondria, ribosom, retikulum endoplasma, dan lain-lain."]>>]

\* The three fixed questions seed_data builds; difficulty takes the
\* default of the QuizQuestion schema.
sample_questions ==
    <<[chapter_slug |-> SeedSlug,
       question |-> "Komponen apakah yang paling berperan langsung dalam fosforilasi oksidatif pada sel eukariot?",
       options |-> <<"Ribosom", "Mitokondria membran dalam", "Aparatus Golgi", "Peroksisom">>,
       correct_index |-> 1,
       explanation |-> "Rantai transpor elektron dan ATP sintase terletak pada membran dalam mitokondria.",
       difficulty |-> "OSN-N"],
      [chapter_slug |-> SeedSlug,
       question |-> "Pada model mosaik fluida, fungsi utama kolesterol dalam membran adalah...",
       options |-> <<"Meningkatkan permeabilitas air", "Menstabilkan fluiditas pada rentang suhu",
                     "Mengaktifkan pompa ion", "Mengikat glikoprotein">>,
       correct_index |-> 1,
       explanation |-> "Kolesterol membantu menjaga fluiditas membran tetap stabil terhadap perubahan suhu.",
       difficulty |-> "OSN-N"],
      [chapter_slug |-> SeedSlug,
       question |-> "Manakah mekanisme transport yang memerlukan energi langsung dari ATP?",
       options |-> <<"Difusi sederhana", "Osmosis", "Difusi terfasilitasi", "Transpor aktif primer">>,
       correct_index |-> 3,
       explanation |-> "Transpor aktif primer menggunakan energi ATP untuk memompa molekul melawan gradien.",
       difficulty |-> "OSN-N"]>>

\* seed_data, line 39: `... if db else []` evaluates bool(db).  None is
\* false; a handle is true with a driver that leaves the truth test to
\* Python, and with a driver whose handles refuse the truth test (PyMongo 4)
\* bool(db) raises NotImplementedError before any lookup.
existing(d, chapters) ==
    IF d = NoHandle THEN [raised |-> FALSE, docs |-> <<>>]
    ELSE IF d = HandleBoolRaises THEN [raised |-> TRUE, docs |-> <<>>]
    ELSE [raised |-> FALSE, docs |-> limit_cursor(chapters, 1)]

\* QuizQuestion (schemas.py): options has at least 2 items and
\* correct_index is at least 0; seed_data builds its questions through it.
QuizQuestion_valid(q) == Len(q.options) >= 2 /\ q.correct_index >= 0

\* The loop of seed_data stopping one question early.
seed_loop_done_early(k) == k >= Len(sample_questions) - 1

\* seed_data, line 98: the loop over sample_questions has run k times and
\* is over.
seed_loop_done(k) == k >= Len(sample_questions)

\* ChapterIn.model_dump(): objectives and sections default to [].
ChapterIn_dump(payload) ==
    [slug |-> payload.slug,
     title |-> payload.title,
     summary |-> payload.summary,
     objectives |-> IF "objectives" \in DOMAIN payload THEN payload.objectives ELSE <<>>,
     sections |-> IF "sections" \in DOMAIN payload THEN payload.sections ELSE <<>>]

\* The slug lookup of create_chapter never finding a chapter.
exists_none(chapters, slug) == None

\* create_chapter, line 137: the chapter that already has the slug, or None.
exists(chapters, slug) == find_one(chapters, "slug", slug)

\* QuizIn.model_dump(): difficulty defaults to "OSN-N".
QuizIn_dump(item) ==
    [chapter_slug |-> item.chapter_slug,
     question |-> item.question,
     options |-> item.options,
     correct_index |-> item.correct_index,
     explanation |-> item.explanation,
     difficulty |-> IF "difficulty" \in DOMAIN item THEN item.difficulty ELSE "OSN-N"]

\* The range check with its upper bound off by one.
out_of_range_inclusive(item) ==
    item.correct_index < 0 \/ item.correct_index > Len(item.options)

\* create_quiz_item, line 169.
out_of_range(item) ==
    item.correct_index < 0 \/ item.correct_index >= Len(item.options)

\* The text of the exceptions the handlers turn into a 500.
StoreUnavailable == "StoreUnavailable"

NoneTypeError == "'NoneType' object is not subscriptable"

BoolNotImplemented == "Database objects do not implement truth value testing or bool(). Please compare with None instead: database is not None"

ValidationError == "validation error for QuizQuestion"

HttpError(code, text) == [status |-> code, body |-> [detail |-> text]]

Ok(content) == [status |-> 200, body |-> content]

\* create_quiz_item storing the item before it checks the range.
create_quiz_item_insert_first(d, item, reachable) ==
    IF d = NoHandle \/ ~reachable
    THEN [resp |-> HttpError(500, StoreUnavailable), insert |-> <<>>, failed |-> TRUE]
    ELSE IF out_of_range(item)
    THEN [resp |-> HttpError(400, "correct_index out of range"),
          insert |-> <<QuizIn_dump(item)>>, failed |-> FALSE]
    ELSE [resp |-> Ok([status |-> "ok"]), insert |-> <<QuizIn_dump(item)>>, failed |-> FALSE]

\* create_quiz_item(item): the response, the documents handed to
\* create_document and stored, and whether the store call raised.
create_quiz_item(d, item, reachable) ==
    IF out_of_range(item)
    THEN [resp |-> HttpError(400, "correct_index out of range"),
          insert |-> <<>>, failed |-> FALSE]
    ELSE IF d = NoHandle \/ ~reachable
    THEN [resp |-> HttpError(500, StoreUnavailable), insert |-> <<>>, failed |-> TRUE]
    ELSE [resp |-> Ok([status |-> "ok"]), insert |-> <<QuizIn_dump(item)>>, failed |-> FALSE]

\* get_chapter(slug); reachable says whether the store answers the call.
get_chapter(d, chapters, slug, reachable) ==
    IF d = NoHandle THEN HttpError(500, NoneTypeError)
    ELSE IF ~reachable THEN HttpError(500, StoreUnavailable)
    ELSE LET doc == find_one(chapters, "slug", slug) IN
         IF IsNone(doc) THEN HttpError(404, "Chapter not found")
         ELSE Ok(serialize(doc))

\* get_quiz_for_chapter(slug, limit).
get_quiz_for_chapter(d, questions, slug, limit, reachable) ==
    IF d = NoHandle THEN HttpError(500, NoneTypeError)
    ELSE IF ~reachable THEN HttpError(500, StoreUnavailable)
    ELSE Ok(serialize_all(limit_cursor(SelectWhere(questions, "chapter_slug", slug), limit)))

\* list_chapters(): get_documents("chapter"), each serialized.
list_chapters(d, chapters, reachable) ==
    IF d = NoHandle \/ ~reachable THEN HttpError(500, StoreUnavailable)
    ELSE Ok(serialize_all(chapters))

\* Every collection name listed, without the cut.
shown_collections_all(names) == names

\* test_database, line 198: collections[:10].
shown_collections(names) == Take(names, MaxCollectionsShown)

\* test_database, line 201: str(e)[:50].
shown_error(text) == Take(text, MaxErrorChars)

\* test_database.  names is what list_collection_names() answers, text the
\* message of the exception it raises when the store is not reachable,
\* url_set whether DATABASE_URL is in the environment.
test_database(d, names, reachable, text, url_set) ==
    IF d = NoHandle
    THEN Ok([backend |-> "Running",
             database |-> <<"Available but not initialized">>,
             database_url |-> "None",
             database_name |-> "None",
             connection_status |-> "Not Connected",
             collections |-> <<>>])
    ELSE Ok([backend |-> "Running",
             database |-> IF reachable THEN <<"Connected & Working">>
                          ELSE <<"Connected but Error: ", shown_error(text)>>,
             database_url |-> IF url_set THEN "Set" ELSE "Not Set",
             database_name |-> "name",
             connection_status |-> "Connected",
             collections |-> IF reachable THEN shown_collections(names) ELSE <<>>])

\* ------------------------------------------------------- request payloads

\* Bodies of POST /chapters that pass ChapterIn's validation.
ChapterInputs ==
    {[slug |-> "x", title |-> "t1", summary |-> "s1"],
     [slug |-> "x", title |-> "t2", summary |-> "s2",
      objectives |-> <<"o1">>, sections |-> <<[heading |-> "h", body |-> "b"]>>],
     [slug |-> SeedSlug, title |-> "t3", summary |-> "s3", objectives |-> <<"o1", "o2">>]}

\* Bodies of POST /quiz that pass QuizIn's validation (options: List[str],
\* correct_index: int, nothing more).
QuizInputs ==
    {[chapter_slug |-> "x", question |-> "q", options |-> <<"a", "b">>,
      correct_index |-> 1, explanation |-> "e"],
     [chapter_slug |-> "x", question |-> "q", options |-> <<"a", "b">>,
      correct_index |-> 2, explanation |-> "e"],
     [chapter_slug |-> SeedSlug, question |-> "q", options |-> <<"a", "b">>,
      correct_index |-> -1, explanation |-> "e"],
     [chapter_slug |-> SeedSlug, question |-> "q", options |-> <<"a", "b", "c">>,
      correct_index |-> 0, explanation |-> "e", difficulty |-> "hard"],
     [chapter_slug |-> SeedSlug, question |-> "q", options |-> <<"a">>,
      correct_index |-> 0, explanation |-> "e"],
     [chapter_slug |-> "x", question |-> "q", options |-> <<>>,
      correct_index |-> 0, explanation |-> "e"]}

\* ?limit= values tried by the reads.
Limits == (0..MaxLimit) \cup {-1, DefaultLimit}

\* Messages of the exception list_collection_names() raises, as characters:
\* a short one and one longer than the 50 characters test_database keeps.
ErrorTexts == {<<"d", "o", "w", "n">>, [i \in 1..(MaxErrorChars + 10) |-> "e"]}

\* What list_collection_names() answers: the collections of this program
\* that hold a document, among n collections of other programs.
own_collections(chapters, questions) ==
    (IF chapters = <<>> THEN <<>> ELSE <<"chapter">>)
        \o (IF questions = <<>> THEN <<>> ELSE <<"quizquestion">>)

CollectionListings(chapters, questions) ==
    {own_collections(chapters, questions) \o [i \in 1..n |-> ToString(i)] : n \in {0, ManyOthers}}
        \cup {[i \in 1..n |-> ToString(i)] \o own_collections(chapters, questions) : n \in {0, ManyOthers}}

\* ------------------------------------------------------------------ state

Idle == [pc |-> "idle", op |-> "none", arg |-> None, status |-> 0, body |-> None,
         k |-> 0, failed |-> FALSE]

Init ==
    /\ db \in Handles
    /\ chapter = <<>>
    /\ quizquestion = <<>>
    /\ owner = <<>>
    /\ req = [r \in Requests |-> Idle]

\* Request r may arrive: requests are numbered in the order they arrive.
CanBegin(r) == req[r].pc = "idle" /\ (IF r = 1 THEN TRUE ELSE req[r - 1].pc # "idle")

\* The handler of r returns resp; failed records that a store call raised.
Return(r, resp, failed) ==
    [req EXCEPT ![r].pc = "done", ![r].status = resp.status, ![r].body = resp.body,
                ![r].failed = failed]

\* create_document(name, doc) by request r succeeds.
InsertChapter(r, doc) ==
    /\ chapter' = Append(chapter, stored(doc, Len(owner) + 1))
    /\ owner' = Append(owner, r)
    /\ UNCHANGED quizquestion

InsertQuestion(r, doc) ==
    /\ quizquestion' = Append(quizquestion, stored(doc, Len(owner) + 1))
    /\ owner' = Append(owner, r)
    /\ UNCHANGED chapter

\* ----------------------------------------------------------- POST /seed

\* seed_data, lines 39-41: the lookup, and the early return.
SeedLookup(r) ==
    /\ CanBegin(r)
    /\ \E reachable \in BOOLEAN :
         LET begun == [req EXCEPT ![r].op = "seed"] IN
         LET found == existing(db, chapter) IN
         IF found.raised
         THEN req' = [Return(r, HttpError(500, BoolNotImplemented), FALSE) EXCEPT ![r].op = "seed"]
         ELSE IF db # NoHandle /\ ~reachable
         THEN req' = [Return(r, HttpError(500, StoreUnavailable), TRUE) EXCEPT ![r].op = "seed"]
         ELSE IF found.docs # <<>>
         THEN req' = [Return(r, Ok([status |-> "ok", message |-> "Already seeded"]), FALSE)
                         EXCEPT ![r].op = "seed"]
         ELSE req' = [begun EXCEPT ![r].pc = "seed_chapter"]
    /\ UNCHANGED <<db, chapter, quizquestion, owner>>

\* seed_data, line 59: create_document("chapter", ch).
SeedInsertChapter(r) ==
    /\ req[r].pc = "seed_chapter"
    /\ \E reachable \in BOOLEAN :
         IF db = NoHandle \/ ~reachable
         THEN /\ req' = Return(r, HttpError(500, StoreUnavailable), TRUE)
              /\ UNCHANGED <<chapter, quizquestion, owner>>
         ELSE /\ InsertChapter(r, seed_chapter)
              /\ req' = [req EXCEPT ![r].pc = "seed_quiz"]
    /\ UNCHANGED db

\* seed_data, lines 98-100: one turn of the loop over sample_questions, and
\* the return after its last turn.
SeedInsertQuestion(r) ==
    /\ req[r].pc = "seed_quiz"
    /\ IF \E i \in 1..Len(sample_questions) : ~QuizQuestion_valid(sample_questions[i])
       THEN /\ req' = Return(r, HttpError(500, ValidationError), FALSE)
            /\ UNCHANGED <<chapter, quizquestion, owner>>
       ELSE IF seed_loop_done(req[r].k)
       THEN /\ req' = Return(r, Ok([status |-> "ok", message |-> "Seeded"]), FALSE)
            /\ UNCHANGED <<chapter, quizquestion, owner>>
       ELSE \E reachable \in BOOLEAN :
              IF ~reachable
              THEN /\ req' = Return(r, HttpError(500, StoreUnavailable), TRUE)
                   /\ UNCHANGED <<chapter, quizquestion, owner>>
              ELSE /\ InsertQuestion(r, sample_questions[req[r].k + 1])
                   /\ req' = [req EXCEPT ![r].k = @ + 1]
    /\ UNCHANGED db

\* ------------------------------------------------------- POST /chapters

\* create_chapter, lines 137-139: the lookup, and the 400.
CreateChapterLookup(r) ==
    /\ CanBegin(r)
    /\ \E payload \in ChapterInputs, reachable \in BOOLEAN :
         LET begun == [req EXCEPT ![r].op = "create_chapter", ![r].arg = payload] IN
         IF db = NoHandle
         THEN req' = [Return(r, HttpError(500, NoneTypeError), TRUE)
                         EXCEPT ![r].op = "create_chapter", ![r].arg = payload]
         ELSE IF ~reachable
         THEN req' = [Return(r, HttpError(500, StoreUnavailable), TRUE)
                         EXCEPT ![r].op = "create_chapter", ![r].arg = payload]
         ELSE IF ~IsNone(exists(chapter, payload.slug))
         THEN req' = [Return(r, HttpError(400, "Slug already exists"), FALSE)
                         EXCEPT ![r].op = "create_chapter", ![r].arg = payload]
         ELSE req' = [begun EXCEPT ![r].pc = "insert_chapter"]
    /\ UNCHANGED <<db, chapter, quizquestion, owner>>

\* create_chapter, lines 140-141.
CreateChapterInsert(r) ==
    /\ req[r].pc = "insert_chapter"
    /\ \E reachable \in BOOLEAN :
         IF ~reachable
         THEN /\ req' = Return(r, HttpError(500, StoreUnavailable), TRUE)
              /\ UNCHANGED <<chapter, quizquestion, owner>>
         ELSE /\ InsertChapter(r, ChapterIn_dump(req[r].arg))
              /\ req' = Return(r, Ok([status |-> "ok"]), FALSE)
    /\ UNCHANGED db

\* ----------------------------------------------------------- POST /quiz

\* POST /quiz: create_quiz_item is one step, its insert the only store call.
CreateQuizItem(r) ==
    /\ CanBegin(r)
    /\ \E item \in QuizInputs, reachable \in BOOLEAN :
         LET out == create_quiz_item(db, item, reachable) IN
         /\ req' = [Return(r, out.resp, out.failed)
                       EXCEPT ![r].op = "create_quiz_item", ![r].arg = item]
         /\ IF out.insert = <<>>
            THEN UNCHANGED <<chapter, quizquestion, owner>>
            ELSE InsertQuestion(r, out.insert[1])
    /\ UNCHANGED db

\* ------------------------------------------------------------ GET /test

TestDatabase(r) ==
    /\ CanBegin(r)
    /\ \E reachable \in BOOLEAN, url_set \in BOOLEAN, text \in ErrorTexts,
          names \in CollectionListings(chapter, quizquestion) :
         req' = [Return(r, test_database(db, names, reachable, text, url_set),
                        db # NoHandle /\ ~reachable)
                    EXCEPT ![r].op = "test_database"]
    /\ UNCHANGED <<db, chapter, quizquestion, owner>>

\* ------------------------------------------------------- specifications

Step(r) ==
    \/ SeedLookup(r)
    \/ SeedInsertChapter(r)
    \/ SeedInsertQuestion(r)
    \/ CreateChapterLookup(r)
    \/ CreateChapterInsert(r)
    \/ CreateQuizItem(r)
    \/ TestDatabase(r)

\* No other request is in flight.
Quiet(r) == \A q \in Requests \ {r} : req[q].pc \in {"idle", "done"}

Next == \E r \in Requests : Step(r)

\* Requests overlap: their store round trips interleave.
Spec == Init /\ [][Next]_vars

SeqNext ==
    \E r \in Requests :
        \/ Quiet(r) /\ SeedLookup(r)
        \/ Quiet(r) /\ SeedInsertChapter(r)
        \/ Quiet(r) /\ SeedInsertQuestion(r)
        \/ Quiet(r) /\ CreateChapterLookup(r)
        \/ Quiet(r) /\ CreateChapterInsert(r)
        \/ Quiet(r) /\ CreateQuizItem(r)
        \/ Quiet(r) /\ TestDatabase(r)

\* Requests are served one after the other.
SeqSpec == Init /\ [][SeqNext]_vars

\* ------------------------------------------------------ reading the state

Done(r) == req[r].pc = "done"

Succeeded(r) == Done(r) /\ req[r].status = 200

\* The documents of a collection that request r inserted.
InsertedIn(coll, r) == Cardinality({i \in 1..Len(coll) : owner[coll[i]["_id"]] = r})

\* The documents request r inserted, in either collection.
Inserted(r) == InsertedIn(chapter, r) + InsertedIn(quizquestion, r)

ChapterCount(slug) == Len(SelectWhere(chapter, "slug", slug))

InBounds(q) == 0 <= q.correct_index /\ q.correct_index < Len(q.options)

\* Requests r1 < r2 were the only ones so far.
OnlyFirstTwo == \A r \in Requests : r > 2 => req[r].pc = "idle"

\* ------------------------------------------------------------------ C1

\* The case of C1: the first two requests are seed calls served one after
\* the other, the handle initialised and the store answering every call.
C1_Case ==
    /\ db # NoHandle
    /\ OnlyFirstTwo
    /\ \A r \in {1, 2} : Done(r) /\ req[r].op = "seed" /\ ~req[r].failed

\* C1: from an empty store, seed() twice in sequence leaves exactly one
\* chapter (slug cell-structure) and exactly three quiz questions that
\* reference it; the first call answers "Seeded", the second "Already
\* seeded" and inserts nothing.
C1_SeedTwice ==
    C1_Case =>
        /\ req[1].status = 200 /\ req[1].body.message = "Seeded"
        /\ req[2].status = 200 /\ req[2].body.message = "Already seeded"
        /\ Inserted(2) = 0
        /\ Len(chapter) = 1 /\ chapter[1].slug = SeedSlug
        /\ Len(quizquestion) = 3
        /\ \A i \in 1..Len(quizquestion) : quizquestion[i].chapter_slug = SeedSlug

\* ------------------------------------------------------------------ C2

\* C2: in every reachable state, whatever the interleaving of createChapter
\* and seed requests, no two chapter documents have the same slug.
C2_SlugUnique ==
    \A i, j \in 1..Len(chapter) : i # j => chapter[i].slug # chapter[j].slug

\* ------------------------------------------------------------------ C3

\* Requests i < j are createChapter calls with the same slug, served one
\* after the other on a store that answered every call.
C3_Pair(i, j) ==
    /\ i < j /\ db # NoHandle
    /\ Done(i) /\ Done(j)
    /\ req[i].op = "create_chapter" /\ req[j].op = "create_chapter"
    /\ ~req[i].failed /\ ~req[j].failed
    /\ req[i].arg.slug = req[j].arg.slug

\* No request before i inserted a chapter with this slug.
C3_Fresh(i, slug) ==
    \A n \in 1..Len(chapter) : chapter[n].slug = slug => owner[chapter[n]["_id"]] >= i

\* C3: two createChapter calls with one slug, one after the other: the
\* first succeeds (the slug being new), the second is refused with 400 and
\* inserts nothing, and one chapter has the slug afterwards.
C3_SecondConflicts ==
    \A i, j \in Requests :
        C3_Pair(i, j) =>
            /\ C3_Fresh(i, req[i].arg.slug) => (req[i].status = 200 /\ Inserted(i) = 1)
            /\ req[j].status = 400
            /\ req[j].body.detail = "Slug already exists"
            /\ Inserted(j) = 0
            /\ ChapterCount(req[i].arg.slug) = 1

C3_Witness ==
    \E i, j \in Requests : C3_Pair(i, j) /\ req[i].status = 200 /\ req[j].status = 400

\* ------------------------------------------------------------------ C4

\* C4: createQuizItem is refused with 400, the collection unchanged, exactly
\* when correct_index is outside 0 .. len(options) - 1; otherwise it
\* inserts exactly one quizquestion document and succeeds (on a store that
\* answers; if the insert raises, the answer is 500 and nothing is stored).
C4_QuizValidated ==
    \A r \in Requests :
        (Done(r) /\ req[r].op = "create_quiz_item") =>
            /\ (req[r].status = 400) <=> ~InBounds(req[r].arg)
            /\ req[r].status = 400 =>
                   (Inserted(r) = 0 /\ req[r].body.detail = "correct_index out of range")
            /\ (InBounds(req[r].arg) /\ ~req[r].failed) =>
                   (req[r].status = 200 /\ InsertedIn(quizquestion, r) = 1 /\ Inserted(r) = 1)
            /\ (InBounds(req[r].arg) /\ req[r].failed) =>
                   (req[r].status = 500 /\ Inserted(r) = 0)

C4_Witness ==
    \E r1, r2 \in Requests :
        /\ Done(r1) /\ req[r1].op = "create_quiz_item" /\ req[r1].status = 400
        /\ Done(r2) /\ req[r2].op = "create_quiz_item" /\ req[r2].status = 200
        /\ InsertedIn(quizquestion, r2) = 1

\* ------------------------------------------------------------------ C5

\* C5: every stored quiz question has at least two options and a
\* correct_index within its options.
C5_StoredQuestionsValid ==
    \A i \in 1..Len(quizquestion) :
        Len(quizquestion[i].options) >= 2 /\ InBounds(quizquestion[i])

\* ------------------------------------------------------------------ C6

\* C6 (for the limits 0 and up): getQuizForChapter(slug, limit) answers at
\* most limit items, exactly min(limit, number of matching questions), each
\* a stored question of that slug; an unknown slug gives an empty list.
C6_QuizLimit ==
    db # NoHandle =>
        \A slug \in Slugs \cup {"does-not-exist"}, limit \in {n \in Limits : n >= 0} :
            LET resp == get_quiz_for_chapter(db, quizquestion, slug, limit, TRUE)
                matching == SelectWhere(quizquestion, "chapter_slug", slug)
            IN /\ resp.status = 200
               /\ Len(resp.body) <= limit
               /\ Len(resp.body) = Min(limit, Len(matching))
               /\ \A i \in 1..Len(resp.body) : resp.body[i].chapter_slug = slug

\* ------------------------------------------------------------------ C7

\* C7: the chapter of every successful createChapter(input) is what
\* getChapter(input.slug) answers afterwards: the title, summary, objectives
\* and sections supplied (empty sequences when omitted) and a non-empty
\* string id in place of _id.
C7_RoundTrip ==
    \A r \in Requests :
        (Succeeded(r) /\ req[r].op = "create_chapter") =>
            LET input == req[r].arg
                resp == get_chapter(db, chapter, input.slug, TRUE)
            IN /\ resp.status = 200
               /\ resp.body.title = input.title
               /\ resp.body.summary = input.summary
               /\ resp.body.objectives =
                      (IF "objectives" \in DOMAIN input THEN input.objectives ELSE <<>>)
               /\ resp.body.sections =
                      (IF "sections" \in DOMAIN input THEN input.sections ELSE <<>>)
               /\ "id" \in DOMAIN resp.body /\ Len(resp.body.id) > 0
               /\ "_id" \notin DOMAIN resp.body

\* ------------------------------------------------------------------ C8

\* Request r is the only seed call so far.
C8_OnlySeed(r) == \A q \in Requests \ {r} : req[q].op # "seed"

\* C8 as claimed (and with a single seed call, the other requests being
\* createChapter and createQuizItem calls): once seed() has returned
\* successfully, getChapter of cell-structure succeeds and its quiz (default
\* limit) has exactly 3 items, each with correct_index within its options.
C8_AfterAnySeed ==
    \A r \in Requests :
        (Succeeded(r) /\ req[r].op = "seed" /\ C8_OnlySeed(r)) =>
            LET chap == get_chapter(db, chapter, SeedSlug, TRUE)
                quiz == get_quiz_for_chapter(db, quizquestion, SeedSlug, DefaultLimit, TRUE)
                items == quiz.body
            IN /\ chap.status = 200
               /\ quiz.status = 200
               /\ Len(items) = 3
               /\ \A i \in 1..Len(items) : InBounds(items[i])

\* No other request stored a question of the seeded chapter.
C8_NoOtherQuestions(r) ==
    \A i \in 1..Len(quizquestion) :
        quizquestion[i].chapter_slug = SeedSlug => owner[quizquestion[i]["_id"]] = r

\* C8 amended: once a seed() has returned "Seeded", getChapter of
\* cell-structure succeeds and its quiz (default limit) has at least 3
\* items, exactly 3 when no other request stored a question of that
\* chapter, each with correct_index within its options.
C8_AfterSeeded ==
    (\E r \in Requests : Succeeded(r) /\ req[r].op = "seed" /\ req[r].body.message = "Seeded") =>
        LET chap == get_chapter(db, chapter, SeedSlug, TRUE)
            quiz == get_quiz_for_chapter(db, quizquestion, SeedSlug, DefaultLimit, TRUE)
            items == quiz.body
        IN /\ chap.status = 200
           /\ chap.body.slug = SeedSlug
           /\ quiz.status = 200
           /\ Len(items) >= 3
           /\ \A r \in Requests :
                  (Succeeded(r) /\ req[r].op = "seed" /\ req[r].body.message = "Seeded"
                      /\ C8_NoOtherQuestions(r)) => Len(items) = 3
           /\ \A i \in 1..Len(items) : InBounds(items[i])

C8_Witness ==
    \E r, q \in Requests :
        /\ Succeeded(r) /\ req[r].op = "seed" /\ req[r].body.message = "Seeded"
        /\ Succeeded(q) /\ req[q].op = "create_quiz_item" /\ q < r

\* ------------------------------------------------------------------ C9

IsError(r) == Done(r) /\ req[r].status >= 400

\* C9 as claimed: every operation inserts at most once, and one that ends
\* in an error response has inserted nothing.
C9_SingleInsert ==
    \A r \in Requests : Inserted(r) <= 1 /\ (IsError(r) => Inserted(r) = 0)

\* C9 amended: createChapter and createQuizItem insert at most once, and
\* nothing when they end in an error; seed inserts up to four documents (a
\* chapter, then three questions), nothing when it answers "Already
\* seeded", all four when it answers "Seeded", and a seed that ends in an
\* error keeps what it had inserted before the failing insert; the health
\* check inserts nothing.
C9_InsertsPerOperation ==
    \A r \in Requests :
        /\ req[r].op \in {"create_chapter", "create_quiz_item"} =>
               /\ Inserted(r) <= 1
               /\ IsError(r) => Inserted(r) = 0
               /\ Succeeded(r) => Inserted(r) = 1
        /\ req[r].op = "seed" =>
               /\ InsertedIn(chapter, r) <= 1
               /\ InsertedIn(quizquestion, r) <= 3
               /\ InsertedIn(quizquestion, r) > 0 => InsertedIn(chapter, r) = 1
               /\ Succeeded(r) => Inserted(r) \in {0, 4}
               /\ Succeeded(r) => (Inserted(r) = 4 <=> req[r].body.message = "Seeded")
        /\ req[r].op \in {"test_database", "none"} => Inserted(r) = 0

C9_Witness ==
    \E r, q \in Requests :
        /\ IsError(r) /\ req[r].op = "seed" /\ Inserted(r) > 0
        /\ IsError(q) /\ req[q].op \in {"create_chapter", "create_quiz_item"}

\* ----------------------------------------------------------------- C10

\* C10: healthCheck always answers 200 with a status report, whatever the
\* store does; a store failure is text in the report (at most 50 characters
\* of the exception); at most 10 collection names are listed; nothing is
\* inserted.
C10_HealthNeverFails ==
    \A r \in Requests :
        (Done(r) /\ req[r].op = "test_database") =>
            /\ req[r].status = 200
            /\ DOMAIN req[r].body = {"backend", "database", "database_url", "database_name",
                                     "connection_status", "collections"}
            /\ Len(req[r].body.collections) <= MaxCollectionsShown
            /\ db = NoHandle => req[r].body.database = <<"Available but not initialized">>
            /\ req[r].failed =>
                   /\ req[r].body.database[1] = "Connected but Error: "
                   /\ \E text \in ErrorTexts :
                          req[r].body.database[2] = SubSeq(text, 1, Min(Len(text), MaxErrorChars))
                   /\ req[r].body.collections = <<>>
            /\ (db # NoHandle /\ ~req[r].failed) => req[r].body.database = <<"Connected & Working">>
            /\ Inserted(r) = 0

C10_Witness ==
    \E r, q \in Requests :
        /\ Done(r) /\ req[r].op = "test_database" /\ req[r].failed
        /\ Len(req[r].body.database[2]) = MaxErrorChars
        /\ Done(q) /\ req[q].op = "test_database" /\ ~req[q].failed
        /\ Len(req[q].body.collections) = MaxCollectionsShown

====
